---- MODULE Spec2Model ----
(***************************************************************************)
(* Model of the screenshot processor: the splitter (image_splitter.py),    *)
(* the duplicate detector (image_comparator.py) and the workflow           *)
(* orchestrator (main.py), run over a small filesystem of image files.     *)
(*                                                                         *)
(* A filename is a sequence of one-character strings; comparisons use the  *)
(* code points of the characters, as Python's str comparison does.  An     *)
(* image is a record of its pixel width and height, the content of its     *)
(* columns left of and right of the split column, and whether it decodes.  *)
(***************************************************************************)
EXTENDS Integers, Sequences, FiniteSets, TLC

(***************************************************************************)
(* Bounds of the model.                                                    *)
(***************************************************************************)
MaxFiles == 3
MaxRuns == 2
MaxFaults == 1
MaxDeletes == 1
MaxKills == 1

(***************************************************************************)
(* Strings.                                                                *)
(***************************************************************************)
CodePoint ==
  ("-" :> 45) @@ ("." :> 46) @@ ("D" :> 68) @@ ("G" :> 71) @@ ("J" :> 74) @@
  ("L" :> 76) @@ ("P" :> 80) @@ ("R" :> 82) @@ ("U" :> 85) @@ ("a" :> 97) @@
  ("b" :> 98) @@ ("c" :> 99) @@ ("d" :> 100) @@ ("e" :> 101) @@ ("g" :> 103) @@
  ("j" :> 106) @@ ("m" :> 109) @@ ("n" :> 110) @@ ("p" :> 112) @@
  ("t" :> 116) @@ ("u" :> 117) @@ ("x" :> 120) @@ ("z" :> 122)

\* str.lower() on one character
LowerChar(c) ==
  CASE c = "D" -> "d" [] c = "G" -> "g" [] c = "J" -> "j" [] c = "L" -> "l"
    [] c = "P" -> "p" [] c = "R" -> "r" [] c = "U" -> "u" [] OTHER -> c

Lower(s) == [n \in 1..Len(s) |-> LowerChar(s[n])]

\* Python's s < t on strings: the first differing code point decides, a
\* proper prefix is smaller
RECURSIVE StrLess(_, _)
StrLess(s, t) ==
  IF t = <<>> THEN FALSE
  ELSE IF s = <<>> THEN TRUE
  ELSE IF Head(s) = Head(t) THEN StrLess(Tail(s), Tail(t))
  ELSE CodePoint[Head(s)] < CodePoint[Head(t)]

StrGeq(s, t) == ~StrLess(s, t)

StartsWith(s, p) == Len(p) <= Len(s) /\ SubSeq(s, 1, Len(p)) = p

EndsWith(s, p) == Len(p) <= Len(s) /\ SubSeq(s, Len(s) - Len(p) + 1, Len(s)) = p

\* Python's `sub in s`
Contains(s, sub) ==
  \E n \in 1..(Len(s) + 1) : n + Len(sub) - 1 <= Len(s) /\ SubSeq(s, n, n + Len(sub) - 1) = sub

DupMarker == <<"-", "D", "U", "P">>

\* IsDup looking for the marker in lower case
IsDup_LowerCase(f) == Contains(f, <<"-", "d", "u", "p">>)

IsDup(f) == Contains(f, DupMarker)

ExtJpg == <<".", "j", "p", "g">>
ExtJpeg == <<".", "j", "p", "e", "g">>
ExtPng == <<".", "p", "n", "g">>

image_extensions == {ExtJpg, ExtJpeg, ExtPng}

\* f.lower().endswith(image_extensions)
IsImageName(f) == \E e \in image_extensions : EndsWith(Lower(f), e)

\* os.path.splitext: the extension starts at the last dot, unless that dot
\* is preceded only by dots (a leading dot does not start an extension)
SplitExt(f) ==
  LET dots == {n \in 1..Len(f) : f[n] = "."}
      last == CHOOSE n \in dots : \A m \in dots : m <= n
  IN  IF dots = {} \/ (\A m \in 1..(last - 1) : f[m] = ".")
        THEN <<f, <<>>>>
        ELSE <<SubSeq(f, 1, last - 1), SubSeq(f, last, Len(f))>>

\* DupNameOf with the marker in lower case
DupNameOf_LowerCase(f) ==
  LET dots == {n \in 1..Len(f) : f[n] = "."}
      last == CHOOSE n \in dots : \A m \in dots : m <= n
  IN  SubSeq(f, 1, last - 1) \o <<"-", "d", "u", "p">> \o SubSeq(f, last, Len(f))

\* DupNameOf with the marker put after the extension
DupNameOf_AfterExtension(f) == f \o DupMarker

\* f"{base}-DUP{ext}"
DupNameOf(f) == SplitExt(f)[1] \o DupMarker \o SplitExt(f)[2]

\* f"{base_name}-L.jpg" and f"{base_name}-R.jpg"
LeftNameOf(f) == SplitExt(f)[1] \o <<"-", "L">> \o ExtJpg
RightNameOf(f) == SplitExt(f)[1] \o <<"-", "R">> \o ExtJpg

\* sorted(): ascending in code-point order
RECURSIVE Sorted(_)
Sorted(S) ==
  IF S = {} THEN <<>>
  ELSE LET least == CHOOSE f \in S : \A g \in S : g = f \/ StrLess(f, g)
       IN  <<least>> \o Sorted(S \ {least})

(***************************************************************************)
(* Images.  l is the content of the columns left of column 1920, r the     *)
(* content of the columns from 1920 on (0 when the image has none); ok     *)
(* tells whether the file decodes.                                         *)
(***************************************************************************)
split_width == 1920
inner_rect_percent == 90
ssim_threshold == 95

Img(w, h, l, r, ok) == [w |-> w, h |-> h, l |-> l, r |-> r, ok |-> ok]

ImagePool ==
  { Img(2000, 1000, 1, 1, TRUE), Img(2000, 1000, 2, 1, TRUE),
    Img(2000, 1000, 3, 3, TRUE), Img(1920, 1000, 1, 0, TRUE),
    Img(2000, 1000, 1, 1, FALSE) }

\* img.crop((0, 0, split_width, img_height)) saved as JPEG
CropLeft(img, sw) == Img(sw, img.h, img.l, 0, TRUE)

\* CropRight with the box (0, 0, img_width, img_height)
CropRight_FromColumnZero(img, sw) == Img(img.w, img.h, img.r, 0, TRUE)

\* img.crop((split_width, 0, img_width, img_height)) saved as JPEG
CropRight(img, sw) == Img(img.w - sw, img.h, img.r, 0, TRUE)

\* int(width * inner_rectangle_percentage), the fraction in hundredths
CropDim(dim, pct) == (dim * pct) \div 100

\* structural_similarity of two equal-shaped regions, in hundredths: 100 for
\* identical content, lower for less similar content
ContentSim(x, y) ==
  IF x = y THEN 100
  ELSE IF x - y = 1 \/ y - x = 1 THEN 96
  ELSE 60

\* the similarity index of the centred crop [left, right) of two images of
\* equal shape; the columns from 1920 on count when the crop reaches them
Ssim(img1, img2, left, right) ==
  LET sl == ContentSim(img1.l, img2.l)
      sr == ContentSim(img1.r, img2.r)
  IN  IF right > split_width /\ sr < sl THEN sr ELSE sl

\* SsimRaises with a window of 11x11
SsimRaises_Window11(crop_width, crop_height) == crop_width < 11 \/ crop_height < 11

\* the smallest region structural_similarity accepts (its 7x7 window)
SsimRaises(crop_width, crop_height) == crop_width < 7 \/ crop_height < 7

\* compare_images_visually with an index equal to the threshold judged different
compare_images_visually_AboveThreshold(img1, img2, pct, threshold) ==
  IF ~img1.ok \/ ~img2.ok THEN TRUE
  ELSE IF img1.w # img2.w \/ img1.h # img2.h THEN TRUE
  ELSE LET crop_width == CropDim(img1.w, pct)
           crop_height == CropDim(img1.h, pct)
           left == (img1.w - crop_width) \div 2
           right == left + crop_width
       IN  IF crop_width <= 0 \/ crop_height <= 0 THEN TRUE
           ELSE IF SsimRaises(crop_width, crop_height) THEN TRUE
           ELSE Ssim(img1, img2, left, right) <= threshold

\* compare_images_visually answering "duplicate" when it catches an exception
compare_images_visually_FailClosed(img1, img2, pct, threshold) ==
  IF ~img1.ok \/ ~img2.ok THEN FALSE
  ELSE IF img1.w # img2.w \/ img1.h # img2.h THEN TRUE
  ELSE LET crop_width == CropDim(img1.w, pct)
           crop_height == CropDim(img1.h, pct)
           left == (img1.w - crop_width) \div 2
           right == left + crop_width
       IN  IF crop_width <= 0 \/ crop_height <= 0 THEN TRUE
           ELSE IF SsimRaises(crop_width, crop_height) THEN FALSE
           ELSE Ssim(img1, img2, left, right) < threshold

\* TRUE: materially different; FALSE: duplicate
compare_images_visually(img1, img2, pct, threshold) ==
  IF ~img1.ok \/ ~img2.ok THEN TRUE
  ELSE IF img1.w # img2.w \/ img1.h # img2.h THEN TRUE
  ELSE LET crop_width == CropDim(img1.w, pct)
           crop_height == CropDim(img1.h, pct)
           left == (img1.w - crop_width) \div 2
           right == left + crop_width
       IN  IF crop_width <= 0 \/ crop_height <= 0 THEN TRUE
           ELSE IF SsimRaises(crop_width, crop_height) THEN TRUE
           ELSE Ssim(img1, img2, left, right) < threshold

(***************************************************************************)
(* Folders: a folder is a function from the names of its files to images.  *)
(***************************************************************************)
Folders == {"src", "left", "right"}

EmptyDir == [f \in {} |-> Img(0, 0, 0, 0, FALSE)]

\* a file written (created or overwritten) under the name f
WriteFile(dir, f, img) == [g \in DOMAIN dir \cup {f} |-> IF g = f THEN img ELSE dir[g]]

\* os.remove
RemoveFile(dir, f) == [g \in DOMAIN dir \ {f} |-> dir[g]]

\* os.rename on POSIX: an existing target file is replaced silently
RenameFile(dir, old, new) ==
  [g \in (DOMAIN dir \ {old}) \cup {new} |-> IF g = new THEN dir[old] ELSE dir[g]]

(***************************************************************************)
(* The file lists of the three entry points.                               *)
(***************************************************************************)
\* sorted([f for f in os.listdir(folder) if f.lower().endswith(...) and "-DUP" not in f])
AllOriginalImageFiles(dir) == Sorted({f \in DOMAIN dir : IsImageName(f) /\ ~IsDup(f)})

\* SplitFilter with the f >= start test dropped
RECURSIVE SplitFilter_IgnoresStart(_, _, _)
SplitFilter_IgnoresStart(files, start, found) ==
  IF files = <<>> THEN <<>>
  ELSE <<Head(files)>> \o SplitFilter_IgnoresStart(Tail(files), start, TRUE)

RECURSIVE SplitFilter(_, _, _)
SplitFilter(files, start, found) ==
  IF files = <<>> THEN <<>>
  ELSE LET f == Head(files)
       IN  IF StrGeq(f, start) THEN <<f>> \o SplitFilter(Tail(files), start, TRUE)
           ELSE IF found THEN <<f>> \o SplitFilter(Tail(files), start, found)
           ELSE SplitFilter(Tail(files), start, found)

RelevantFilesForSplitting(dir, start) ==
  IF start # <<>> THEN SplitFilter(AllOriginalImageFiles(dir), start, FALSE)
  ELSE AllOriginalImageFiles(dir)

\* sorted([f for f in os.listdir(folder) if f.lower().endswith(...)])
AllImageFilesInFolder(dir) == Sorted({f \in DOMAIN dir : IsImageName(f)})

\* DupFilter without the "-DUP" not in f test
RECURSIVE DupFilter_KeepsMarked(_, _, _)
DupFilter_KeepsMarked(files, start, found) ==
  IF files = <<>> THEN <<>>
  ELSE LET f == Head(files)
           found_start_file == found \/ StrGeq(f, start)
       IN  IF found_start_file
             THEN <<f>> \o DupFilter_KeepsMarked(Tail(files), start, found_start_file)
             ELSE DupFilter_KeepsMarked(Tail(files), start, found_start_file)

RECURSIVE DupFilter(_, _, _)
DupFilter(files, start, found) ==
  IF files = <<>> THEN <<>>
  ELSE LET f == Head(files)
           found_start_file == found \/ StrGeq(f, start)
       IN  IF found_start_file /\ ~IsDup(f)
             THEN <<f>> \o DupFilter(Tail(files), start, found_start_file)
             ELSE DupFilter(Tail(files), start, found_start_file)

RelevantFilesForDupCheck(dir, start) == DupFilter(AllImageFilesInFolder(dir), start, FALSE)

(***************************************************************************)
(* The state.                                                              *)
(***************************************************************************)
VARIABLES
  fs,         \* the three folders
  fs0,        \* the folders as they were before the first run
  cmd,        \* the command line: entry point and starting filename
  pc,         \* position of the running process
  run,        \* number of runs started so far
  splitList,  \* relevant_files_for_splitting
  k,          \* index of the file being split (1-based)
  sp,         \* position inside split_image_horizontally
  phase,      \* the folder being swept
  rel,        \* relevant_files_for_dup_check
  ref,        \* current_reference_file_name
  i,          \* the cursor (0-based, as in the code)
  faults,     \* I/O failures injected so far
  deletes,    \* files deleted by another process so far
  kills,      \* runs killed by the operator so far
  log         \* what the runs did, in order

vars == <<fs, fs0, cmd, pc, run, splitList, k, sp, phase, rel, ref, i,
          faults, deletes, kills, log>>

splitVars == <<splitList, k, sp>>
sweepVars == <<phase, rel, ref, i>>
envVars == <<faults, deletes, kills>>

SrcNames ==
  { <<"a", ".", "j", "p", "g">>, <<"b", ".", "j", "p", "g">>,
    <<"c", ".", "j", "p", "g">>, <<"b", "-", "D", "U", "P", ".", "j", "p", "g">> }

StartNames == { <<>>, <<"b">> }

Programs == {"orchestrator", "splitter", "detector"}

NoName == <<>>

Event(op, dir, a, b) == [run |-> run, op |-> op, dir |-> dir, a |-> a, b |-> b]

Logged(op, dir, a, b) == log' = Append(log, Event(op, dir, a, b))

Init ==
  /\ \E names \in SUBSET SrcNames :
       /\ Cardinality(names) <= MaxFiles
       /\ \E d \in [names -> ImagePool] :
            fs = [src |-> d, left |-> EmptyDir, right |-> EmptyDir]
  /\ fs0 = fs
  /\ \E p \in Programs, s \in StartNames : cmd = [prog |-> p, start |-> s]
  /\ pc = "idle"
  /\ run = 0
  /\ splitList = <<>> /\ k = 0 /\ sp = "open"
  /\ phase = "src" /\ rel = <<>> /\ ref = NoName /\ i = 0
  /\ faults = 0 /\ deletes = 0 /\ kills = 0
  /\ log = <<>>

(***************************************************************************)
(* Entry points.                                                           *)
(***************************************************************************)
\* StartSplitting with the orchestrator going on to its sweeps when it has
\* nothing to split
StartSplitting_SweepsAnyway ==
  /\ pc \in {"idle", "done", "killed", "crashed"}
  /\ cmd.prog \in {"orchestrator", "splitter"}
  /\ run < MaxRuns
  /\ run' = run + 1
  /\ LET files == RelevantFilesForSplitting(fs.src, cmd.start)
     IN  /\ splitList' = files
         /\ IF files = <<>>
              THEN /\ IF cmd.prog = "orchestrator"
                        THEN pc' = "enum" /\ phase' = "left"
                        ELSE pc' = "done" /\ phase' = phase
                   /\ k' = 0
                   /\ log' = Append(log, [Event("no_files", "src", NoName, NoName) EXCEPT !.run = run + 1])
              ELSE /\ pc' = "split" /\ phase' = phase
                   /\ k' = 1
                   /\ log' = Append(log, [Event("start", "src", NoName, NoName) EXCEPT !.run = run + 1])
  /\ sp' = "open"
  /\ UNCHANGED <<fs, fs0, cmd, rel, ref, i, envVars>>

\* main.py main() and image_splitter.py main() up to the split loop
StartSplitting ==
  /\ pc \in {"idle", "done", "killed", "crashed"}
  /\ cmd.prog \in {"orchestrator", "splitter"}
  /\ run < MaxRuns
  /\ run' = run + 1
  /\ LET files == RelevantFilesForSplitting(fs.src, cmd.start)
     IN  /\ splitList' = files
         /\ IF files = <<>>
              THEN /\ pc' = "done"
                   /\ k' = 0
                   /\ log' = Append(log, [Event("no_files", "src", NoName, NoName) EXCEPT !.run = run + 1])
              ELSE /\ pc' = "split"
                   /\ k' = 1
                   /\ log' = Append(log, [Event("start", "src", NoName, NoName) EXCEPT !.run = run + 1])
  /\ sp' = "open"
  /\ UNCHANGED <<fs, fs0, cmd, sweepVars, envVars>>

\* image_comparator.py main()
StartDetector ==
  /\ pc \in {"idle", "done", "killed", "crashed"}
  /\ cmd.prog = "detector"
  /\ run < MaxRuns
  /\ run' = run + 1
  /\ pc' = "enum"
  /\ phase' = "src"
  /\ rel' = <<>> /\ ref' = NoName /\ i' = 0
  /\ log' = Append(log, [Event("start", "src", NoName, NoName) EXCEPT !.run = run + 1])
  /\ UNCHANGED <<fs, fs0, cmd, splitVars, envVars>>

(***************************************************************************)
(* split_image_horizontally, one step per I/O call.                        *)
(***************************************************************************)
\* the split loop moves on to the next file; after the last one the
\* orchestrator goes on to sweep _left_splits and the splitter ends
NextFile ==
  /\ k' = k + 1
  /\ sp' = "open"
  /\ IF k + 1 <= Len(splitList)
       THEN pc' = "split" /\ phase' = phase
       ELSE IF cmd.prog = "orchestrator"
         THEN pc' = "enum" /\ phase' = "left"
         ELSE pc' = "done" /\ phase' = phase
  /\ rel' = <<>> /\ ref' = NoName /\ i' = 0

CurrentFile == splitList[k]

\* Image.open succeeds: the file exists and decodes
Opens(dir, f) == f \in DOMAIN dir /\ dir[f].ok

\* Image.open raises: the file is gone or does not decode
SplitOpenFails ==
  /\ pc = "split" /\ sp = "open"
  /\ ~Opens(fs.src, CurrentFile)
  /\ Logged("open_failed", "src", CurrentFile, NoName)
  /\ NextFile
  /\ UNCHANGED <<fs, fs0, cmd, run, splitList, envVars>>

\* img_width <= split_width: nothing is written, the source stays
SplitSkip ==
  /\ pc = "split" /\ sp = "open"
  /\ Opens(fs.src, CurrentFile)
  /\ fs.src[CurrentFile].w <= split_width
  /\ Logged("skipped", "src", CurrentFile, NoName)
  /\ NextFile
  /\ UNCHANGED <<fs, fs0, cmd, run, splitList, envVars>>

\* SplitOpen with img_width >= split_width
SplitOpen_AtLeast ==
  /\ pc = "split" /\ sp = "open"
  /\ Opens(fs.src, CurrentFile)
  /\ fs.src[CurrentFile].w >= split_width
  /\ sp' = "left"
  /\ UNCHANGED <<fs, fs0, cmd, pc, run, splitList, k, sweepVars, envVars, log>>

SplitOpen ==
  /\ pc = "split" /\ sp = "open"
  /\ Opens(fs.src, CurrentFile)
  /\ fs.src[CurrentFile].w > split_width
  /\ sp' = "left"
  /\ UNCHANGED <<fs, fs0, cmd, pc, run, splitList, k, sweepVars, envVars, log>>

SplitSaveLeft ==
  /\ pc = "split" /\ sp = "left"
  /\ fs' = [fs EXCEPT !.left = WriteFile(@, LeftNameOf(CurrentFile),
                                          CropLeft(fs.src[CurrentFile], split_width))]
  /\ sp' = "right"
  /\ Logged("left_saved", "left", CurrentFile, LeftNameOf(CurrentFile))
  /\ UNCHANGED <<fs0, cmd, pc, run, splitList, k, sweepVars, envVars>>

SplitSaveLeftFails ==
  /\ pc = "split" /\ sp = "left"
  /\ faults < MaxFaults
  /\ faults' = faults + 1
  /\ Logged("left_failed", "left", CurrentFile, NoName)
  /\ NextFile
  /\ UNCHANGED <<fs, fs0, cmd, run, splitList, deletes, kills>>

SplitSaveRight ==
  /\ pc = "split" /\ sp = "right"
  /\ fs' = [fs EXCEPT !.right = WriteFile(@, RightNameOf(CurrentFile),
                                           CropRight(fs.src[CurrentFile], split_width))]
  /\ sp' = "remove"
  /\ Logged("right_saved", "right", CurrentFile, RightNameOf(CurrentFile))
  /\ UNCHANGED <<fs0, cmd, pc, run, splitList, k, sweepVars, envVars>>

\* SplitSaveRightFails with os.remove run although the save failed
SplitSaveRightFails_RemovesSource ==
  /\ pc = "split" /\ sp = "right"
  /\ faults < MaxFaults
  /\ faults' = faults + 1
  /\ fs' = [fs EXCEPT !.src = RemoveFile(@, CurrentFile)]
  /\ Logged("right_failed", "right", CurrentFile, NoName)
  /\ NextFile
  /\ UNCHANGED <<fs0, cmd, run, splitList, deletes, kills>>

SplitSaveRightFails ==
  /\ pc = "split" /\ sp = "right"
  /\ faults < MaxFaults
  /\ faults' = faults + 1
  /\ Logged("right_failed", "right", CurrentFile, NoName)
  /\ NextFile
  /\ UNCHANGED <<fs, fs0, cmd, run, splitList, deletes, kills>>

SplitRemove ==
  /\ pc = "split" /\ sp = "remove"
  /\ fs' = [fs EXCEPT !.src = RemoveFile(@, CurrentFile)]
  /\ Logged("removed", "src", CurrentFile, NoName)
  /\ NextFile
  /\ UNCHANGED <<fs0, cmd, run, splitList, envVars>>

SplitRemoveFails ==
  /\ pc = "split" /\ sp = "remove"
  /\ faults < MaxFaults
  /\ faults' = faults + 1
  /\ Logged("remove_failed", "src", CurrentFile, NoName)
  /\ NextFile
  /\ UNCHANGED <<fs, fs0, cmd, run, splitList, deletes, kills>>

(***************************************************************************)
(* run_duplicate_detection.                                                *)
(***************************************************************************)
\* the starting filename of the sweep: the orchestrator always passes ""
\* SweepStart with the starting filename of the command line
SweepStart_FromCommand == cmd.start

SweepStart == IF cmd.prog = "orchestrator" THEN <<>> ELSE cmd.start

\* run_duplicate_detection returns: the orchestrator goes on to sweep
\* _right_splits after _left_splits, and ends after _right_splits
SweepReturns ==
  IF cmd.prog = "orchestrator" /\ phase = "left"
    THEN pc' = "enum" /\ phase' = "right"
    ELSE pc' = "done" /\ phase' = phase

\* while i < len(relevant_files_for_dup_check)
LoopOrReturn(cursor, files) ==
  IF cursor < Len(files) THEN pc' = "loop" /\ phase' = phase ELSE SweepReturns

\* SweepEnumerate with the cursor started on the first file
SweepEnumerate_CursorOnFirst ==
  /\ pc = "enum"
  /\ LET files == RelevantFilesForDupCheck(fs[phase], SweepStart)
     IN  /\ rel' = files
         /\ IF Len(files) < 2
              THEN /\ ref' = NoName /\ i' = 0
                   /\ SweepReturns
                   /\ Logged("too_few", phase, NoName, NoName)
              ELSE /\ ref' = files[1] /\ i' = 0
                   /\ pc' = "loop" /\ phase' = phase
                   /\ Logged("sweep", phase, files[1], NoName)
  /\ UNCHANGED <<fs, fs0, cmd, run, splitVars, envVars>>

\* the listing and the filter; fewer than two files: return
SweepEnumerate ==
  /\ pc = "enum"
  /\ LET files == RelevantFilesForDupCheck(fs[phase], SweepStart)
     IN  /\ rel' = files
         /\ IF Len(files) < 2
              THEN /\ ref' = NoName /\ i' = 0
                   /\ SweepReturns
                   /\ Logged("too_few", phase, NoName, NoName)
              ELSE /\ ref' = files[1] /\ i' = 1
                   /\ pc' = "loop" /\ phase' = phase
                   /\ Logged("sweep", phase, files[1], NoName)
  /\ UNCHANGED <<fs, fs0, cmd, run, splitVars, envVars>>

next_file_name == rel[i + 1]

ReferenceLost == IsDup(ref) \/ ref \notin DOMAIN fs[phase]

\* the positions j >= i whose file is unmarked and exists
PromotionCandidates ==
  {j \in i..(Len(rel) - 1) : ~IsDup(rel[j + 1]) /\ rel[j + 1] \in DOMAIN fs[phase]}

\* SweepPromote with the cursor left on the promoted file
SweepPromote_CursorOnPromoted ==
  /\ pc = "loop"
  /\ ReferenceLost
  /\ PromotionCandidates # {}
  /\ LET j == CHOOSE c \in PromotionCandidates : \A d \in PromotionCandidates : c <= d
     IN  /\ ref' = rel[j + 1]
         /\ i' = j
         /\ LoopOrReturn(j, rel)
         /\ Logged("promoted", phase, rel[j + 1], NoName)
  /\ UNCHANGED <<fs, fs0, cmd, run, splitVars, rel, envVars>>

\* the reference is gone: promote the next existing unmarked file
SweepPromote ==
  /\ pc = "loop"
  /\ ReferenceLost
  /\ PromotionCandidates # {}
  /\ LET j == CHOOSE c \in PromotionCandidates : \A d \in PromotionCandidates : c <= d
     IN  /\ ref' = rel[j + 1]
         /\ i' = j + 1
         /\ LoopOrReturn(j + 1, rel)
         /\ Logged("promoted", phase, rel[j + 1], NoName)
  /\ UNCHANGED <<fs, fs0, cmd, run, splitVars, rel, envVars>>

\* the reference is gone and no file is left to promote: break
SweepBreak ==
  /\ pc = "loop"
  /\ ReferenceLost
  /\ PromotionCandidates = {}
  /\ SweepReturns
  /\ Logged("break", phase, NoName, NoName)
  /\ UNCHANGED <<fs, fs0, cmd, run, splitVars, rel, ref, i, envVars>>

BothExist == ref \in DOMAIN fs[phase] /\ next_file_name \in DOMAIN fs[phase]

is_materially_different ==
  compare_images_visually(fs[phase][ref], fs[phase][next_file_name],
                          inner_rect_percent, ssim_threshold)

\* SweepRename with the renamed file taken as the new reference
SweepRename_MovesReference ==
  /\ pc = "loop"
  /\ ~ReferenceLost /\ BothExist
  /\ ~is_materially_different
  /\ LET new_next_file_name == DupNameOf(next_file_name)
     IN  /\ fs' = [fs EXCEPT ![phase] = RenameFile(@, next_file_name, new_next_file_name)]
         /\ rel' = [rel EXCEPT ![i + 1] = new_next_file_name]
         /\ ref' = new_next_file_name
         /\ Logged("renamed", phase, next_file_name, new_next_file_name)
  /\ i' = i + 1
  /\ LoopOrReturn(i + 1, rel)
  /\ UNCHANGED <<fs0, cmd, run, splitVars, envVars>>

\* judged duplicate, os.rename succeeds
SweepRename ==
  /\ pc = "loop"
  /\ ~ReferenceLost /\ BothExist
  /\ ~is_materially_different
  /\ LET new_next_file_name == DupNameOf(next_file_name)
     IN  /\ fs' = [fs EXCEPT ![phase] = RenameFile(@, next_file_name, new_next_file_name)]
         /\ rel' = [rel EXCEPT ![i + 1] = new_next_file_name]
         /\ Logged("renamed", phase, next_file_name, new_next_file_name)
  /\ i' = i + 1
  /\ LoopOrReturn(i + 1, rel)
  /\ UNCHANGED <<fs0, cmd, run, splitVars, ref, envVars>>

\* os.rename raises OSError when the target exists (Windows)
RenameTargetExists == DupNameOf(next_file_name) \in DOMAIN fs[phase]

\* SweepRenameFails with the new name written to the list all the same
SweepRenameFails_MarksList ==
  /\ pc = "loop"
  /\ ~ReferenceLost /\ BothExist
  /\ ~is_materially_different
  /\ \/ RenameTargetExists /\ faults' = faults
     \/ faults < MaxFaults /\ faults' = faults + 1
  /\ rel' = [rel EXCEPT ![i + 1] = DupNameOf(next_file_name)]
  /\ i' = i + 1
  /\ LoopOrReturn(i + 1, rel)
  /\ Logged("rename_failed", phase, next_file_name, NoName)
  /\ UNCHANGED <<fs, fs0, cmd, run, splitVars, ref, deletes, kills>>

\* judged duplicate, os.rename raises OSError
SweepRenameFails ==
  /\ pc = "loop"
  /\ ~ReferenceLost /\ BothExist
  /\ ~is_materially_different
  /\ \/ RenameTargetExists /\ faults' = faults
     \/ faults < MaxFaults /\ faults' = faults + 1
  /\ i' = i + 1
  /\ LoopOrReturn(i + 1, rel)
  /\ Logged("rename_failed", phase, next_file_name, NoName)
  /\ UNCHANGED <<fs, fs0, cmd, run, splitVars, rel, ref, deletes, kills>>

\* SweepDifferent with the reference left on the old file
SweepDifferent_KeepsReference ==
  /\ pc = "loop"
  /\ ~ReferenceLost /\ BothExist
  /\ is_materially_different
  /\ ref' = ref
  /\ i' = i + 1
  /\ LoopOrReturn(i + 1, rel)
  /\ Logged("different", phase, ref, next_file_name)
  /\ UNCHANGED <<fs, fs0, cmd, run, splitVars, rel, envVars>>

\* judged materially different: the cursor file becomes the reference
SweepDifferent ==
  /\ pc = "loop"
  /\ ~ReferenceLost /\ BothExist
  /\ is_materially_different
  /\ ref' = next_file_name
  /\ i' = i + 1
  /\ LoopOrReturn(i + 1, rel)
  /\ Logged("different", phase, ref, next_file_name)
  /\ UNCHANGED <<fs, fs0, cmd, run, splitVars, rel, envVars>>

\* the cursor file is missing: the warning's f-string reads the undefined
\* name current_file_name, NameError ends the process
SweepMissing ==
  /\ pc = "loop"
  /\ ~ReferenceLost /\ ~BothExist
  /\ pc' = "crashed"
  /\ Logged("NameError", phase, ref, next_file_name)
  /\ UNCHANGED <<fs, fs0, cmd, run, splitVars, sweepVars, envVars>>

(***************************************************************************)
(* The environment.                                                        *)
(***************************************************************************)
\* the files the run has yet to read
Pending ==
  IF pc = "split" /\ sp = "open" THEN {<<"src", splitList[n]>> : n \in k..Len(splitList)}
  ELSE IF pc = "loop" THEN {<<phase, rel[n]>> : n \in (i + 1)..Len(rel)} \cup {<<phase, ref>>}
  ELSE {}

\* os.remove of several files
RECURSIVE RemoveFiles(_, _)
RemoveFiles(dir, names) ==
  IF names = {} THEN dir
  ELSE LET f == CHOOSE g \in names : TRUE
       IN  RemoveFiles(RemoveFile(dir, f), names \ {f})

\* another process deletes files of the folder in use between the listing
\* and their use
ExternalDelete ==
  /\ deletes < MaxDeletes
  /\ \E gone \in SUBSET {t[2] : t \in Pending} :
       LET d == IF pc = "split" THEN "src" ELSE phase
       IN  /\ gone # {}
           /\ gone \subseteq DOMAIN fs[d]
           /\ fs' = [fs EXCEPT ![d] = RemoveFiles(@, gone)]
           /\ Logged("deleted", d, Sorted(gone), NoName)
  /\ deletes' = deletes + 1
  /\ UNCHANGED <<fs0, cmd, pc, run, splitVars, sweepVars, faults, kills>>

\* Kill striking inside a rename: the old name is gone, the new one not there
Kill_InsideRename ==
  /\ pc \in {"split", "enum", "loop"}
  /\ kills < MaxKills
  /\ kills' = kills + 1
  /\ pc' = "killed"
  /\ fs' = IF pc = "loop" /\ ~ReferenceLost /\ BothExist /\ ~is_materially_different
             THEN [fs EXCEPT ![phase] = RemoveFile(@, next_file_name)]
             ELSE fs
  /\ Logged("killed", phase, NoName, NoName)
  /\ UNCHANGED <<fs0, cmd, run, splitVars, sweepVars, faults, deletes>>

\* the operator terminates the process
Kill ==
  /\ pc \in {"split", "enum", "loop"}
  /\ kills < MaxKills
  /\ kills' = kills + 1
  /\ pc' = "killed"
  /\ Logged("killed", phase, NoName, NoName)
  /\ UNCHANGED <<fs, fs0, cmd, run, splitVars, sweepVars, faults, deletes>>

\* a run with I/O failures and another process deleting files
Next ==
  \/ StartSplitting
  \/ StartDetector
  \/ SplitOpenFails
  \/ SplitSkip
  \/ SplitOpen
  \/ SplitSaveLeft
  \/ SplitSaveLeftFails
  \/ SplitSaveRight
  \/ SplitSaveRightFails
  \/ SplitRemove
  \/ SplitRemoveFails
  \/ SweepEnumerate
  \/ SweepPromote
  \/ SweepBreak
  \/ SweepRename
  \/ SweepRenameFails
  \/ SweepDifferent
  \/ SweepMissing
  \/ ExternalDelete

Spec == Init /\ [][Next]_vars

\* the orchestrator, killed by the operator and run again, with no I/O
\* failure and no other process touching the folders
InitResume == Init /\ cmd.prog = "orchestrator"

NextResume ==
  \/ StartSplitting
  \/ SplitOpenFails
  \/ SplitSkip
  \/ SplitOpen
  \/ SplitSaveLeft
  \/ SplitSaveRight
  \/ SplitRemove
  \/ SweepEnumerate
  \/ SweepRename
  \/ SweepDifferent
  \/ Kill

SpecResume == InitResume /\ [][NextResume]_vars

\* one sweep of the detector, killed by the operator and started afresh with
\* the same parameters, with no I/O failure and no other process touching
\* the folder
InitSweepResume == Init /\ cmd.prog = "detector"

NextSweepResume ==
  \/ StartDetector
  \/ SweepEnumerate
  \/ SweepRename
  \/ SweepDifferent
  \/ Kill

SpecSweepResume == InitSweepResume /\ [][NextSweepResume]_vars

\* the orchestrator started from "b" on folders where an earlier run has
\* split a.jpg: its halves a-L.jpg and a-R.jpg are in the split folders;
\* no I/O failure and no other process touching the folders
EarlierFile == <<"a", ".", "j", "p", "g">>

InitEarlier ==
  /\ \E names \in SUBSET SrcNames :
       /\ Cardinality(names) <= MaxFiles
       /\ \E d \in [names -> ImagePool] :
            \E e \in {x \in ImagePool : x.ok /\ x.w > split_width} :
              fs = [src   |-> d,
                    left  |-> WriteFile(EmptyDir, LeftNameOf(EarlierFile), CropLeft(e, split_width)),
                    right |-> WriteFile(EmptyDir, RightNameOf(EarlierFile), CropRight(e, split_width))]
  /\ fs0 = fs
  /\ cmd = [prog |-> "orchestrator", start |-> <<"b">>]
  /\ pc = "idle"
  /\ run = 0
  /\ splitList = <<>> /\ k = 0 /\ sp = "open"
  /\ phase = "src" /\ rel = <<>> /\ ref = NoName /\ i = 0
  /\ faults = 0 /\ deletes = 0 /\ kills = 0
  /\ log = <<>>

NextEarlier ==
  \/ StartSplitting
  \/ SplitOpenFails
  \/ SplitSkip
  \/ SplitOpen
  \/ SplitSaveLeft
  \/ SplitSaveRight
  \/ SplitRemove
  \/ SweepEnumerate
  \/ SweepRename
  \/ SweepDifferent

SpecEarlier == InitEarlier /\ [][NextEarlier]_vars

(***************************************************************************)
(* Vocabulary of the properties.                                           *)
(***************************************************************************)
Events(ops) == {n \in 1..Len(log) : log[n].op \in ops}

EventsOfRun(ops, r) == {n \in Events(ops) : log[n].run = r}

\* no injected I/O failure, no failed rename, no file deleted by another process
NoFailure == faults = 0 /\ deletes = 0 /\ Events({"rename_failed"}) = {}

\* the verdict of the similarity test on two files of a folder
Judged(dir, x, y) ==
  compare_images_visually(dir[x], dir[y], inner_rect_percent, ssim_threshold)

\* the filtered list of the detector's first sweep
FirstList == RelevantFilesForDupCheck(fs0.src, cmd.start)

\* a first, failure-free sweep of the detector over exactly three eligible files
SweptThree ==
  /\ cmd.prog = "detector" /\ run = 1 /\ pc = "done"
  /\ NoFailure
  /\ Len(FirstList) = 3

\* B carries the marker, A and C keep their names, C is the reference
MarkedMiddle(A, B, C) ==
  /\ A \in DOMAIN fs.src
  /\ B \notin DOMAIN fs.src
  /\ DupNameOf(B) \in DOMAIN fs.src
  /\ C \in DOMAIN fs.src
  /\ ref = C

(***************************************************************************)
(* C1 as stated: in a sweep over three eligible files A < B < C, where     *)
(* A and B are judged duplicates and B and C are judged materially         *)
(* different, B is renamed to B-DUP, A and C keep their names and C is     *)
(* the new reference.                                                      *)
(***************************************************************************)
C1_PairwiseVerdictDecides ==
  SweptThree =>
    LET A == FirstList[1]
        B == FirstList[2]
        C == FirstList[3]
    IN  (~Judged(fs0.src, A, B) /\ Judged(fs0.src, B, C)) => MarkedMiddle(A, B, C)

(***************************************************************************)
(* C1 amended: in a sweep over three eligible files A < B < C, where A     *)
(* and B are judged duplicates and A (still the reference) and C are       *)
(* judged materially different, B is renamed to B-DUP, A and C keep their  *)
(* names and C is the new reference.                                       *)
(***************************************************************************)
C1_ReferenceVerdictDecides ==
  SweptThree =>
    LET A == FirstList[1]
        B == FirstList[2]
        C == FirstList[3]
    IN  (~Judged(fs0.src, A, B) /\ Judged(fs0.src, A, C)) => MarkedMiddle(A, B, C)

C1_Witness ==
  /\ SweptThree
  /\ ~Judged(fs0.src, FirstList[1], FirstList[2])
  /\ Judged(fs0.src, FirstList[1], FirstList[3])
  /\ ~Judged(fs0.src, FirstList[2], FirstList[3])
  /\ MarkedMiddle(FirstList[1], FirstList[2], FirstList[3])

(***************************************************************************)
(* C2: when the reference exists and the cursor file is missing at         *)
(* comparison time, the iteration advances the cursor by exactly one,      *)
(* leaves the reference unchanged, renames nothing and the sweep goes on   *)
(* instead of crashing.                                                    *)
(***************************************************************************)
C2_MissingFileIsSkipped ==
  [][(pc = "loop" /\ ~ReferenceLost /\ ~BothExist /\ deletes' = deletes)
       => (i' = i + 1 /\ ref' = ref /\ fs' = fs /\ pc' # "crashed")]_vars

(***************************************************************************)
(* The orchestrator run to its end in one go: no kill, no I/O failure, no  *)
(* other process.                                                          *)
(***************************************************************************)
\* split_image_horizontally on the file f
SplitOne(folders, f) ==
  IF Opens(folders.src, f) /\ folders.src[f].w > split_width
    THEN [src |-> RemoveFile(folders.src, f),
          left |-> WriteFile(folders.left, LeftNameOf(f), CropLeft(folders.src[f], split_width)),
          right |-> WriteFile(folders.right, RightNameOf(f), CropRight(folders.src[f], split_width))]
    ELSE folders

\* for filename in relevant_files_for_splitting: split_image_horizontally(...)
RECURSIVE SplitAll(_, _)
SplitAll(folders, files) ==
  IF files = <<>> THEN folders
  ELSE SplitAll(SplitOne(folders, Head(files)), Tail(files))

\* the while loop with every file present and every rename succeeding
RECURSIVE SweepFrom(_, _, _, _)
SweepFrom(dir, files, reference, cursor) ==
  IF cursor >= Len(files) THEN dir
  ELSE LET next == files[cursor + 1]
       IN  IF Judged(dir, reference, next)
             THEN SweepFrom(dir, files, next, cursor + 1)
             ELSE SweepFrom(RenameFile(dir, next, DupNameOf(next)), files, reference, cursor + 1)

\* run_duplicate_detection(folder, start, ...)
SweepFolder(dir, start) ==
  LET files == RelevantFilesForDupCheck(dir, start)
  IN  IF Len(files) < 2 THEN dir ELSE SweepFrom(dir, files, files[1], 1)

\* main.py main()
OrchestratorRun(folders, start) ==
  LET files == RelevantFilesForSplitting(folders.src, start)
      halves == SplitAll(folders, files)
  IN  IF files = <<>> THEN folders
      ELSE [src |-> halves.src,
            left |-> SweepFolder(halves.left, <<>>),
            right |-> SweepFolder(halves.right, <<>>)]

FileNames(folders) == [d \in Folders |-> DOMAIN folders[d]]

\* the first run was killed and the second run has ended
ResumedAndDone ==
  /\ cmd.prog = "orchestrator"
  /\ EventsOfRun({"killed"}, 1) # {}
  /\ run = 2 /\ pc = "done"

\* one run that was not killed has ended
UninterruptedAndDone ==
  /\ cmd.prog = "orchestrator"
  /\ kills = 0
  /\ run = 1 /\ pc = "done"

(***************************************************************************)
(* C3 as stated: when a run of the orchestrator is killed at any point and *)
(* the orchestrator is run again with the same parameters, the filenames   *)
(* in the three folders end up as an uninterrupted run leaves them.        *)
(***************************************************************************)
C3_ResumeEqualsUninterrupted ==
  ResumedAndDone => FileNames(fs) = FileNames(OrchestratorRun(fs0, cmd.start))

(***************************************************************************)
(* C3 amended: when a run of the orchestrator is killed at any point and   *)
(* the orchestrator is run again with the same parameters, and the second  *)
(* run still finds a file that matches the splitting filter, the filenames *)
(* in the three folders end up as an uninterrupted run leaves them; when   *)
(* no file matches the filter any more the second run changes nothing.     *)
(***************************************************************************)
C3_ResumeWithSplitListEqualsUninterrupted ==
  /\ (ResumedAndDone /\ splitList # <<>>) =>
        FileNames(fs) = FileNames(OrchestratorRun(fs0, cmd.start))
  /\ UninterruptedAndDone => FileNames(fs) = FileNames(OrchestratorRun(fs0, cmd.start))
  /\ (ResumedAndDone /\ splitList = <<>>) => EventsOfRun({"renamed", "left_saved", "right_saved", "removed"}, 2) = {}

\* killed between the renames of the two sweeps, resumed with a file still
\* matching the splitting filter, and ended like one run
C3_Witness ==
  /\ ResumedAndDone /\ splitList # <<>>
  /\ \E n \in EventsOfRun({"killed"}, 1) : log[n].dir # "src"
  /\ EventsOfRun({"renamed"}, 1) # {}
  /\ EventsOfRun({"renamed"}, 2) # {}
  /\ FileNames(fs) = FileNames(OrchestratorRun(fs0, cmd.start))

(***************************************************************************)
(* C4: after the detector has swept a folder with no rename failure and no *)
(* missing file, sweeping the unchanged folder again with the same         *)
(* parameters attempts no rename.                                          *)
(***************************************************************************)
FirstSweepClean ==
  /\ cmd.prog = "detector"
  /\ deletes = 0
  /\ EventsOfRun({"rename_failed", "NameError", "promoted", "break"}, 1) = {}

C4_SecondSweepRenamesNothing ==
  FirstSweepClean => \A n \in Events({"renamed", "rename_failed"}) : log[n].run = 1

C4_Witness ==
  /\ FirstSweepClean
  /\ run = 2 /\ pc = "done"
  /\ EventsOfRun({"renamed"}, 1) # {}
  /\ EventsOfRun({"different"}, 2) # {}
  /\ EventsOfRun({"renamed"}, 2) = {}

(***************************************************************************)
(* C5: every iteration of the sweep loop strictly increases the cursor,    *)
(* the missing-file iteration included (only the break of the promotion    *)
(* step leaves the loop without moving it), and a sweep over n files makes *)
(* at most n-1 comparisons.                                                *)
(***************************************************************************)
ComparisonsOfSweep ==
  {n \in EventsOfRun({"renamed", "rename_failed", "different"}, run) : log[n].dir = phase}

C5_CursorAlwaysAdvances ==
  /\ [](pc = "loop" => Cardinality(ComparisonsOfSweep) <= Len(rel) - 1)
  /\ [][(pc = "loop" /\ deletes' = deletes /\ ~(ReferenceLost /\ PromotionCandidates = {}))
          => i' > i]_vars

(***************************************************************************)
(* C6: a split removes the source file only when both halves are on disk,  *)
(* and after a failed save of the left or of the right half the source     *)
(* file still exists.                                                      *)
(***************************************************************************)
HalvesOnDisk(f, img) ==
  /\ LeftNameOf(f) \in DOMAIN fs.left
  /\ fs.left[LeftNameOf(f)] = CropLeft(img, split_width)
  /\ RightNameOf(f) \in DOMAIN fs.right
  /\ fs.right[RightNameOf(f)] = CropRight(img, split_width)

C6_SourceRemovedAfterBothHalves ==
  [][(pc = "split" /\ deletes' = deletes) =>
       /\ \A f \in DOMAIN fs.src \ DOMAIN fs'.src :
            f = CurrentFile /\ HalvesOnDisk(f, fs.src[f]) /\ fs'.left = fs.left /\ fs'.right = fs.right
       /\ (sp \in {"left", "right"} /\ faults' = faults + 1) => CurrentFile \in DOMAIN fs'.src]_vars

\* one split went through, another one failed on the right half and left
\* its source and an orphaned left half behind
C6_Witness ==
  /\ Events({"removed"}) # {}
  /\ \E n \in Events({"right_failed"}) :
       /\ log[n].a \in DOMAIN fs.src
       /\ LeftNameOf(log[n].a) \in DOMAIN fs.left
       /\ RightNameOf(log[n].a) \notin DOMAIN fs.right

(***************************************************************************)
(* C7: no iteration of a sweep changes the number of files in the swept    *)
(* folder: a rename never replaces a file that exists under the marked     *)
(* name.                                                                   *)
(***************************************************************************)
C7_SweepKeepsFileCount ==
  [][(pc = "loop" /\ deletes' = deletes)
       => Cardinality(DOMAIN fs'[phase]) = Cardinality(DOMAIN fs[phase])]_vars

(***************************************************************************)
(* C8: no failure on one file ends a run of the orchestrator that has      *)
(* started splitting: the run is never aborted, it goes through the split  *)
(* list and through both sweeps.                                           *)
(***************************************************************************)
C8_NoFailureEndsTheRun ==
  cmd.prog = "orchestrator" => pc # "crashed"

(***************************************************************************)
(* The end-to-end scenario: a.jpg, b.jpg identical to a.jpg, and c.jpg     *)
(* differing, all 2000x1000, through the orchestrator.                     *)
(***************************************************************************)
FileA == <<"a", ".", "j", "p", "g">>
FileB == <<"b", ".", "j", "p", "g">>
FileC == <<"c", ".", "j", "p", "g">>

Scenario ==
  /\ cmd = [prog |-> "orchestrator", start |-> <<>>]
  /\ DOMAIN fs0.src = {FileA, FileB, FileC}
  /\ \A f \in DOMAIN fs0.src : fs0.src[f].ok /\ fs0.src[f].w = 2000 /\ fs0.src[f].h = 1000
  /\ fs0.src[FileB] = fs0.src[FileA]
  /\ fs0.src[FileC] # fs0.src[FileA]
  /\ run = 1 /\ pc = "done"
  /\ NoFailure

ScenarioResult ==
  /\ DOMAIN fs.left = { <<"a", "-", "L", ".", "j", "p", "g">>,
                        <<"b", "-", "L", "-", "D", "U", "P", ".", "j", "p", "g">>,
                        <<"c", "-", "L", ".", "j", "p", "g">> }
  /\ DOMAIN fs.right = { <<"a", "-", "R", ".", "j", "p", "g">>,
                         <<"b", "-", "R", "-", "D", "U", "P", ".", "j", "p", "g">>,
                         <<"c", "-", "R", ".", "j", "p", "g">> }
  /\ DOMAIN fs.src \cap {FileA, FileB, FileC} = {}

\* both halves of c.jpg are judged materially different from those of a.jpg
HalvesOfCDiffer ==
  /\ compare_images_visually(CropLeft(fs0.src[FileA], split_width),
                             CropLeft(fs0.src[FileC], split_width),
                             inner_rect_percent, ssim_threshold)
  /\ compare_images_visually(CropRight(fs0.src[FileA], split_width),
                             CropRight(fs0.src[FileC], split_width),
                             inner_rect_percent, ssim_threshold)

(***************************************************************************)
(* C9 as stated: with c.jpg merely differing from a.jpg, the run ends with *)
(* a-L.jpg, b-L-DUP.jpg, c-L.jpg in _left_splits, a-R.jpg, b-R-DUP.jpg,    *)
(* c-R.jpg in _right_splits and none of the three sources left.            *)
(***************************************************************************)
C9_EndToEnd == Scenario => ScenarioResult

(***************************************************************************)
(* C9 amended: when each half of c.jpg is judged materially different from *)
(* the same half of a.jpg, the run ends with a-L.jpg, b-L-DUP.jpg, c-L.jpg *)
(* in _left_splits, a-R.jpg, b-R-DUP.jpg, c-R.jpg in _right_splits and     *)
(* none of the three sources left.                                         *)
(***************************************************************************)
C9_EndToEndBothHalvesDiffer == (Scenario /\ HalvesOfCDiffer) => ScenarioResult

C9_Witness == Scenario /\ HalvesOfCDiffer /\ ScenarioResult

(***************************************************************************)
(* C10: splitting an image wider than the split width writes exactly two   *)
(* files, the left half of the split width and the right half of the       *)
(* remaining width, both of the source's height, and then removes the      *)
(* source file.                                                            *)
(***************************************************************************)
\* the names under which a folder holds a new or a changed file
Written(before, after) ==
  {g \in DOMAIN after : g \notin DOMAIN before \/ after[g] # before[g]}

C10_SplitWritesTwoHalves ==
  [][(pc = "split" /\ deletes' = deletes /\ faults' = faults /\ Opens(fs.src, CurrentFile)
        /\ fs.src[CurrentFile].w > split_width) =>
       LET f == CurrentFile
           img == fs.src[f]
       IN  /\ sp = "open" => fs' = fs
           /\ sp = "left" =>
                /\ Written(fs.left, fs'.left) \subseteq {LeftNameOf(f)}
                /\ DOMAIN fs.left \subseteq DOMAIN fs'.left
                /\ fs'.left[LeftNameOf(f)].w = split_width
                /\ fs'.left[LeftNameOf(f)].h = img.h
                /\ fs'.right = fs.right /\ fs'.src = fs.src
           /\ sp = "right" =>
                /\ Written(fs.right, fs'.right) \subseteq {RightNameOf(f)}
                /\ DOMAIN fs.right \subseteq DOMAIN fs'.right
                /\ fs'.right[RightNameOf(f)].w = img.w - split_width
                /\ fs'.right[RightNameOf(f)].h = img.h
                /\ fs'.left[LeftNameOf(f)].w + fs'.right[RightNameOf(f)].w = img.w
                /\ fs'.left = fs.left /\ fs'.src = fs.src
           /\ sp = "remove" =>
                /\ f \notin DOMAIN fs'.src
                /\ DOMAIN fs'.src = DOMAIN fs.src \ {f}
                /\ fs'.left = fs.left /\ fs'.right = fs.right]_vars

\* a source of width 2000 is gone and its halves of widths 1920 and 80 exist
C10_Witness ==
  \E n \in Events({"removed"}) :
    LET f == log[n].a
    IN  /\ f \notin DOMAIN fs.src
        /\ fs0.src[f].w = 2000
        /\ LeftNameOf(f) \in DOMAIN fs.left /\ fs.left[LeftNameOf(f)].w = 1920
        /\ RightNameOf(f) \in DOMAIN fs.right /\ fs.right[RightNameOf(f)].w = 80

(***************************************************************************)
(* C11: while the file being split is no wider than the split width, no    *)
(* step of the run writes a file into either output folder or changes the  *)
(* source folder: the source file stays in place unchanged.                *)
(***************************************************************************)
\* the marker test on a name, as the spec states it
Marked(f) == Contains(f, <<"-", "D", "U", "P">>)

C11_NarrowImageIsLeftAlone ==
  [][(pc = "split" /\ deletes' = deletes /\ Opens(fs.src, CurrentFile)
        /\ fs.src[CurrentFile].w <= split_width)
       => (fs' = fs /\ (pc' = "split" => k' = k + 1))]_vars

\* an image of exactly the split width was offered to the split and skipped
C11_Witness ==
  \E n \in Events({"skipped"}) :
    LET f == log[n].a
    IN  /\ f \in DOMAIN fs.src /\ fs.src[f] = fs0.src[f]
        /\ fs.src[f].w = split_width
        /\ LeftNameOf(f) \notin DOMAIN fs.left
        /\ RightNameOf(f) \notin DOMAIN fs.right

(***************************************************************************)
(* C12: with a starting filename S the splitter and the detector process   *)
(* exactly the eligible files whose name is lexically at or after S; a     *)
(* file below S is never split, deleted, compared or renamed.  For S = "m" *)
(* and a.jpg, m.jpg, z.jpg only m.jpg and z.jpg are processed.             *)
(***************************************************************************)
\* the eligible files of the source folder at or after the starting filename
EligibleFromStart ==
  {f \in DOMAIN fs0.src : IsImageName(f) /\ ~Marked(f) /\ StrGeq(f, cmd.start)}

SplitOps ==
  {"open_failed", "skipped", "left_saved", "left_failed", "right_saved",
   "right_failed", "removed", "remove_failed"}

SweepOps == {"sweep", "promoted", "different", "renamed", "rename_failed", "NameError"}

\* the files of the source folder the runs have handled so far
Handled ==
  {log[n].a : n \in {m \in Events(SplitOps \cup SweepOps) : log[m].dir = "src"}}
    \cup {log[n].b : n \in {m \in Events({"different", "NameError"}) : log[m].dir = "src"}}
    \cup {log[n].a : n \in {m \in Events(SplitOps) : log[m].dir # "src"}}

FileM == <<"m", ".", "j", "p", "g">>
FileZ == <<"z", ".", "j", "p", "g">>

ExampleFolder ==
  [f \in {<<"a", ".", "j", "p", "g">>, FileM, FileZ} |-> Img(2000, 1000, 1, 1, TRUE)]

C12_OnlyFilesFromStart ==
  /\ cmd.prog # "orchestrator" =>
       \A f \in DOMAIN fs0.src :
         StrLess(f, cmd.start) => (f \in DOMAIN fs.src /\ fs.src[f] = fs0.src[f])
  /\ pc \in {"done", "crashed"} =>
       /\ \A f \in Handled : StrGeq(f, cmd.start)
       /\ (cmd.prog = "splitter" /\ run = 1 /\ pc = "done" /\ NoFailure)
            => Handled = EligibleFromStart
       /\ (cmd.prog = "detector" /\ run = 1 /\ pc = "done" /\ NoFailure
             /\ Cardinality(EligibleFromStart) >= 2)
            => Handled = EligibleFromStart
  /\ run = 0 =>
       /\ RelevantFilesForSplitting(ExampleFolder, <<"m">>) = <<FileM, FileZ>>
       /\ RelevantFilesForDupCheck(ExampleFolder, <<"m">>) = <<FileM, FileZ>>

\* the splitter started from "b" has split b.jpg and has not touched a.jpg
C12_Witness ==
  /\ cmd = [prog |-> "splitter", start |-> <<"b">>]
  /\ pc = "done"
  /\ <<"a", ".", "j", "p", "g">> \in DOMAIN fs.src
  /\ fs.src[<<"a", ".", "j", "p", "g">>].ok
  /\ fs.src[<<"a", ".", "j", "p", "g">>].w > split_width
  /\ <<"b", ".", "j", "p", "g">> \in DOMAIN fs0.src
  /\ <<"b", ".", "j", "p", "g">> \notin DOMAIN fs.src
  /\ <<"b", "-", "L", ".", "j", "p", "g">> \in DOMAIN fs.left

(***************************************************************************)
(* C13: a file whose name contains -DUP when the sweep lists the folder is *)
(* never the reference, is never compared and is never renamed again: in   *)
(* every comparison of a sweep neither name contains -DUP.                 *)
(***************************************************************************)
C13_MarkedFilesStayOut ==
  /\ pc = "loop" => (~Marked(ref) /\ ~Marked(rel[i + 1]))
  /\ pc \in {"done", "crashed"} =>
       /\ \A n \in Events({"sweep", "promoted", "renamed", "rename_failed"}) : ~Marked(log[n].a)
       /\ \A n \in Events({"different", "NameError"}) : ~Marked(log[n].a) /\ ~Marked(log[n].b)

\* a folder that held b-DUP.jpg from the start was swept with comparisons
\* and b-DUP.jpg is as it was
C13_Witness ==
  /\ cmd.prog = "detector" /\ pc = "done"
  /\ <<"b", "-", "D", "U", "P", ".", "j", "p", "g">> \in DOMAIN fs0.src
  /\ <<"b", "-", "D", "U", "P", ".", "j", "p", "g">> \in DOMAIN fs.src
  /\ fs.src[<<"b", "-", "D", "U", "P", ".", "j", "p", "g">>]
       = fs0.src[<<"b", "-", "D", "U", "P", ".", "j", "p", "g">>]
  /\ Events({"different", "renamed"}) # {}

(***************************************************************************)
(* C14: in every state of a sweep the reference and the cursor file are    *)
(* different files; the sweep starts with the first file of the filtered   *)
(* sorted list as reference and the cursor on the second; the first file   *)
(* of the list is never renamed by the sweep.                              *)
(***************************************************************************)
\* the unmarked image files of the swept folder at or after the start
EligibleInSweptFolder ==
  {f \in DOMAIN fs[phase] : IsImageName(f) /\ ~Marked(f) /\ StrGeq(f, SweepStart)}

C14_ReferenceIsNotCursor ==
  /\ [](pc = "loop" => (i >= 1 /\ ref # rel[i + 1] /\ ~Marked(rel[1])))
  /\ [][(pc = "enum" /\ pc' = "loop") =>
          /\ ref' \in EligibleInSweptFolder
          /\ \A g \in EligibleInSweptFolder : ~StrLess(g, ref')
          /\ rel'[1] = ref'
          /\ i' = 1]_vars
  /\ [][(pc = "loop" /\ deletes' = deletes) =>
          /\ rel'[1] = rel[1]
          /\ rel[1] \in DOMAIN fs[phase] =>
               (rel[1] \in DOMAIN fs'[phase] /\ fs'[phase][rel[1]] = fs[phase][rel[1]])]_vars

\* a sweep over three files has renamed a file and moved the reference, and
\* the first file of its list is as it was
C14_Witness ==
  /\ cmd.prog = "detector" /\ run = 1 /\ pc = "done"
  /\ Len(FirstList) = 3
  /\ Events({"renamed"}) # {} /\ Events({"different"}) # {}
  /\ FirstList[1] \in DOMAIN fs.src
  /\ fs.src[FirstList[1]] = fs0.src[FirstList[1]]
  /\ ref # FirstList[1]

(***************************************************************************)
(* The inputs of the comparison taken alone: images of several sizes down  *)
(* to one pixel, inner-rectangle fractions and thresholds in hundredths.   *)
(***************************************************************************)
ComparePool ==
  ImagePool \cup {Img(10, 10, 1, 0, TRUE), Img(10, 10, 2, 0, TRUE),
                  Img(5, 5, 1, 0, TRUE), Img(1, 1, 1, 0, TRUE)}

Fractions == {0, 1, 50, 90, 100}

Thresholds == {95, 96, 100}

\* the comparison raises: a file does not decode, or the crop is smaller
\* than the scoring window
ComparisonRaises(img1, img2, pct) ==
  \/ ~img1.ok
  \/ ~img2.ok
  \/ /\ img1.w = img2.w /\ img1.h = img2.h
     /\ CropDim(img1.w, pct) > 0 /\ CropDim(img1.h, pct) > 0
     /\ SsimRaises(CropDim(img1.w, pct), CropDim(img1.h, pct))

(***************************************************************************)
(* C15: fail-open: when the comparison of the reference with the cursor    *)
(* file raises an exception, the cursor file is not renamed, it becomes    *)
(* the new reference and the cursor advances by one; a sweep renames a     *)
(* file only when both files of the comparison decode.                     *)
(***************************************************************************)
C15_ComparisonFailureIsDifferent ==
  /\ [][(pc = "loop" /\ deletes' = deletes /\ ~ReferenceLost /\ BothExist
           /\ ComparisonRaises(fs[phase][ref], fs[phase][next_file_name], inner_rect_percent))
          => (fs' = fs /\ rel' = rel /\ ref' = next_file_name /\ i' = i + 1
                /\ pc' # "crashed")]_vars
  /\ [][(pc = "loop" /\ deletes' = deletes /\ fs' # fs)
          => (Opens(fs[phase], ref) /\ Opens(fs[phase], next_file_name))]_vars
  /\ [](run = 0 =>
          \A x \in ComparePool, y \in ComparePool, p \in Fractions, t \in Thresholds :
             ComparisonRaises(x, y, p) => compare_images_visually(x, y, p, t))

\* a file that does not decode was compared, was judged different, is the
\* reference and keeps its name
C15_Witness ==
  /\ pc = "loop"
  /\ \E n \in Events({"different"}) :
        /\ log[n].dir = phase /\ log[n].b = ref
        /\ ref \in DOMAIN fs[phase] /\ ~fs[phase][ref].ok
        /\ log[n].a \in DOMAIN fs[phase] /\ fs[phase][log[n].a].ok
        /\ i = 2

(***************************************************************************)
(* C16: when the rename of a cursor file judged duplicate fails, the file  *)
(* keeps its unmarked name on disk and in the in-memory list, the          *)
(* reference is unchanged, the cursor advances by one and the sweep        *)
(* continues; the next sweep of the folder lists the file again.           *)
(***************************************************************************)
C16_FailedRenameKeepsTheFile ==
  /\ [][(pc = "loop" /\ deletes' = deletes /\ ~ReferenceLost /\ BothExist
           /\ ~is_materially_different /\ fs' = fs)
          => /\ rel' = rel /\ ref' = ref /\ i' = i + 1
             /\ pc' # "crashed"
             /\ ~Marked(rel[i + 1]) /\ rel[i + 1] \in DOMAIN fs'[phase]
             /\ fs'[phase][rel[i + 1]] = fs[phase][rel[i + 1]]]_vars
  /\ [][(pc = "enum" /\ pc' = "loop")
          => \A n \in Events({"rename_failed"}) :
               (/\ log[n].dir = phase
                /\ log[n].a \in DOMAIN fs[phase]
                /\ StrGeq(log[n].a, SweepStart))
               => \E j \in 1..Len(rel') : rel'[j] = log[n].a]_vars

\* a rename failed in the first run and the second run has the file in its list
C16_Witness ==
  /\ cmd.prog = "detector" /\ run = 2 /\ pc = "loop"
  /\ \E n \in EventsOfRun({"rename_failed"}, 1) :
        /\ log[n].a \in DOMAIN fs.src
        /\ \E j \in 1..Len(rel) : rel[j] = log[n].a

(***************************************************************************)
(* C17: in the orchestrator the starting filename restricts only the split *)
(* phase: each sweep lists every unmarked image file of its split folder,  *)
(* the halves of earlier runs below the starting filename included, and    *)
(* judges each pair with the orchestrator's fraction and threshold.        *)
(***************************************************************************)
UnmarkedImagesOf(dir) == Sorted({f \in DOMAIN dir : IsImageName(f) /\ ~Marked(f)})

EarlierHalf == IF phase = "left" THEN LeftNameOf(EarlierFile) ELSE RightNameOf(EarlierFile)

C17_StartRestrictsOnlySplitting ==
  /\ [][pc = "enum" => (phase \in {"left", "right"} /\ rel' = UnmarkedImagesOf(fs[phase]))]_vars
  /\ [](pc = "loop" => (StrLess(rel[1], cmd.start) /\ rel[1] = EarlierHalf))
  /\ [][(pc = "loop" /\ ~ReferenceLost /\ BothExist)
          => (fs' # fs <=> ~compare_images_visually(fs[phase][ref], fs[phase][next_file_name],
                                                    inner_rect_percent, ssim_threshold))]_vars
  /\ [][pc = "split" => (CurrentFile \in DOMAIN fs.src => StrGeq(CurrentFile, cmd.start))]_vars

\* the run from "b" has split b.jpg and its left sweep has marked b-L.jpg
\* a duplicate of the earlier a-L.jpg
C17_Witness ==
  /\ run = 1 /\ pc = "done"
  /\ \E n \in Events({"renamed"}) :
        /\ log[n].dir = "left"
        /\ log[n].a = LeftNameOf(FileB)
        /\ DupNameOf(LeftNameOf(FileB)) \in DOMAIN fs.left
  /\ LeftNameOf(EarlierFile) \in DOMAIN fs.left
  /\ fs.left[LeftNameOf(EarlierFile)] = fs0.left[LeftNameOf(EarlierFile)]
  /\ StrLess(LeftNameOf(EarlierFile), cmd.start)

(***************************************************************************)
(* C18: if no file of the source folder matches the orchestrator's         *)
(* splitting filter (image extension, no -DUP, at or after the starting    *)
(* filename), the run performs no split and no sweep: it ends at once and  *)
(* no file of the three folders is created, deleted or renamed by it.      *)
(***************************************************************************)
MatchesSplitFilter(f) == IsImageName(f) /\ ~Marked(f) /\ StrGeq(f, cmd.start)

C18_NothingToSplitNothingDone ==
  /\ [][(cmd.prog = "orchestrator" /\ run' = run + 1
           /\ \A f \in DOMAIN fs.src : ~MatchesSplitFilter(f))
          => (fs' = fs /\ pc' = "done")]_vars
  /\ [](pc \in {"done", "crashed"} =>
          \A n \in Events({"no_files"}) :
             EventsOfRun(SplitOps \cup SweepOps \cup {"too_few", "break"}, log[n].run) = {})

\* the second run of the orchestrator found nothing to split, in a source
\* folder that is not empty and with halves in both split folders, and
\* ended with the folders as the first run left them
C18_Witness ==
  /\ cmd.prog = "orchestrator" /\ run = 2 /\ pc = "done"
  /\ EventsOfRun({"no_files"}, 2) # {}
  /\ DOMAIN fs.src # {}
  /\ Cardinality(DOMAIN fs.left) >= 2 /\ Cardinality(DOMAIN fs.right) >= 2
  /\ EventsOfRun({"removed"}, 1) # {}

(***************************************************************************)
(* compare_images_visually taken alone: two paths of a folder, which may   *)
(* be the same path or name no file, compared once with the caller's       *)
(* fraction and threshold.                                                 *)
(***************************************************************************)
ComparePaths == {FileA, FileB}

\* Image.open(path).convert("L"): a missing file raises like an undecodable one
OpenImage(dir, path) == IF path \in DOMAIN dir THEN dir[path] ELSE Img(0, 0, 0, 0, FALSE)

InitCompare ==
  /\ \E names \in (SUBSET ComparePaths) \ {{}} :
       \E d \in [names -> ComparePool] :
         fs = [src |-> d, left |-> EmptyDir, right |-> EmptyDir]
  /\ fs0 = fs
  /\ \E p \in Fractions, t \in Thresholds :
       cmd = [prog |-> "compare", start |-> <<>>, pct |-> p, thr |-> t]
  /\ pc = "idle"
  /\ run = 0
  /\ splitList = <<>> /\ k = 0 /\ sp = "open"
  /\ phase = "src" /\ rel = <<>> /\ ref = NoName /\ i = 0
  /\ faults = 0 /\ deletes = 0 /\ kills = 0
  /\ log = <<>>

\* one call of compare_images_visually(img1_path, img2_path, ...)
CompareTwoImages ==
  /\ pc = "idle"
  /\ run' = 1
  /\ pc' = "done"
  /\ \E img1_path \in ComparePaths, img2_path \in ComparePaths :
       log' = Append(log,
                [run |-> 1,
                 op  |-> IF compare_images_visually(OpenImage(fs.src, img1_path),
                                                    OpenImage(fs.src, img2_path),
                                                    cmd.pct, cmd.thr)
                           THEN "judged_different" ELSE "judged_duplicate",
                 dir |-> "src", a |-> img1_path, b |-> img2_path])
  /\ UNCHANGED <<fs, fs0, cmd, splitVars, sweepVars, envVars>>

NextCompare == CompareTwoImages

SpecCompare == InitCompare /\ [][NextCompare]_vars

\* the call made, its two images and its verdict
Call == log[Len(log)]
Image1 == OpenImage(fs.src, Call.a)
Image2 == OpenImage(fs.src, Call.b)
JudgedDuplicate == Call.op = "judged_duplicate"
CropWidth == CropDim(Image1.w, cmd.pct)
CropHeight == CropDim(Image1.h, cmd.pct)
SimilarityIndex ==
  Ssim(Image1, Image2, (Image1.w - CropWidth) \div 2, (Image1.w - CropWidth) \div 2 + CropWidth)

(***************************************************************************)
(* C19: the verdict is "not materially different" if and only if the two   *)
(* images have equal dimensions, both crop dimensions are > 0, scoring     *)
(* raises no exception and the similarity index is >= the threshold; two   *)
(* images of different dimensions are materially different for every       *)
(* threshold.                                                              *)
(***************************************************************************)
C19_DuplicateIffSimilarEnough ==
  pc = "done" =>
    /\ JudgedDuplicate <=>
         (/\ Image1.ok /\ Image2.ok
          /\ Image1.w = Image2.w /\ Image1.h = Image2.h
          /\ CropWidth > 0 /\ CropHeight > 0
          /\ ~(CropWidth < 7 \/ CropHeight < 7)
          /\ SimilarityIndex >= cmd.thr)
    /\ (Image1.ok /\ Image2.ok /\ (Image1.w # Image2.w \/ Image1.h # Image2.h))
         => ~JudgedDuplicate

\* two different images whose index equals the threshold were judged duplicate
C19_Witness ==
  /\ pc = "done" /\ JudgedDuplicate
  /\ Image1 # Image2
  /\ SimilarityIndex = cmd.thr

(***************************************************************************)
(* C20: comparing any image with itself (the same path given twice) with   *)
(* threshold 0.95 is judged "not materially different", for every image    *)
(* size and every inner-rectangle fraction in (0, 1].                      *)
(***************************************************************************)
SelfComparison ==
  /\ pc = "done"
  /\ Call.a = Call.b /\ Call.a \in DOMAIN fs.src /\ Image1.ok
  /\ cmd.thr = ssim_threshold
  /\ cmd.pct >= 1 /\ cmd.pct <= 100

C20_SelfComparisonIsDuplicate == SelfComparison => JudgedDuplicate

\* C20 as the code has it: the same holds when the inner rectangle is at
\* least 7 pixels wide and 7 pixels high
C20_SelfComparisonOfScorableCropIsDuplicate ==
  (SelfComparison /\ CropWidth >= 7 /\ CropHeight >= 7) => JudgedDuplicate

\* a 10x10 image compared with itself on its 9x9 inner rectangle
C20_Witness ==
  /\ SelfComparison /\ JudgedDuplicate
  /\ Image1.w = 10 /\ CropWidth = 9 /\ CropHeight = 9

(***************************************************************************)
(* The legacy prototype (scratchpad.py): process_images_in_folder with its *)
(* own split, comparison and sweep, run with no I/O failure and no other   *)
(* process touching the folders.                                           *)
(***************************************************************************)
\* the values given for material_diff_thresh, in hundredths
MaterialThresholds == {2, 5, 10}

\* SSIM_THRESHOLD = 0.95 in the body of the legacy comparison
SSIM_THRESHOLD == 95

\* sorted([f for f in os.listdir(folder) if f.lower().endswith(".jpg")])
all_jpg_files(dir) == Sorted({f \in DOMAIN dir : EndsWith(Lower(f), ExtJpg)})

\* [f for f in all_original_jpg_files if f >= start_filename]
RECURSIVE LegacySplitFilter(_, _)
LegacySplitFilter(files, start) ==
  IF files = <<>> THEN <<>>
  ELSE IF StrGeq(Head(files), start)
    THEN <<Head(files)>> \o LegacySplitFilter(Tail(files), start)
    ELSE LegacySplitFilter(Tail(files), start)

\* [f for f in all_jpg_files if f >= start and "-DUP" not in f]
RECURSIVE LegacyDupFilter(_, _)
LegacyDupFilter(files, start) ==
  IF files = <<>> THEN <<>>
  ELSE IF StrGeq(Head(files), start) /\ ~IsDup(Head(files))
    THEN <<Head(files)>> \o LegacyDupFilter(Tail(files), start)
    ELSE LegacyDupFilter(Tail(files), start)

\* legacy_compare_images_visually with the index compared to
\* 1 - material_difference_threshold
legacy_compare_images_visually_UsesParameter(img1, img2, pct, material_difference_threshold) ==
  IF ~img1.ok \/ ~img2.ok THEN TRUE
  ELSE IF img1.w # img2.w \/ img1.h # img2.h THEN TRUE
  ELSE LET crop_width == CropDim(img1.w, pct)
           crop_height == CropDim(img1.h, pct)
           left == (img1.w - crop_width) \div 2
           right == left + crop_width
       IN  IF SsimRaises(crop_width, crop_height) THEN TRUE
           ELSE Ssim(img1, img2, left, right) < 100 - material_difference_threshold

\* the legacy comparison: TRUE is materially different. There is no test of
\* the crop size: a crop below the scoring window makes ssim raise. The
\* index is abstracted as in the primary comparison.
legacy_compare_images_visually(img1, img2, pct, material_difference_threshold) ==
  IF ~img1.ok \/ ~img2.ok THEN TRUE
  ELSE IF img1.w # img2.w \/ img1.h # img2.h THEN TRUE
  ELSE LET crop_width == CropDim(img1.w, pct)
           crop_height == CropDim(img1.h, pct)
           left == (img1.w - crop_width) \div 2
           right == left + crop_width
       IN  IF SsimRaises(crop_width, crop_height) THEN TRUE
           ELSE Ssim(img1, img2, left, right) < SSIM_THRESHOLD

InitLegacy ==
  /\ \E names \in SUBSET SrcNames :
       /\ Cardinality(names) <= MaxFiles
       /\ \E d \in [names -> ImagePool] :
            fs = [src |-> d, left |-> EmptyDir, right |-> EmptyDir]
  /\ fs0 = fs
  /\ \E s \in StartNames, t \in MaterialThresholds :
       cmd = [prog |-> "legacy", start |-> s, mdt |-> t]
  /\ pc = "idle"
  /\ run = 0
  /\ splitList = <<>> /\ k = 0 /\ sp = "open"
  /\ phase = "src" /\ rel = <<>> /\ ref = NoName /\ i = 0
  /\ faults = 0 /\ deletes = 0 /\ kills = 0
  /\ log = <<>>

\* process_images_in_folder up to the split loop
LegacyStart ==
  /\ pc \in {"idle", "done"}
  /\ run < MaxRuns
  /\ run' = run + 1
  /\ LET files == LegacySplitFilter(all_jpg_files(fs.src), cmd.start)
     IN  /\ splitList' = files
         /\ IF files = <<>>
              THEN /\ pc' = "done"
                   /\ k' = 0
                   /\ log' = Append(log, [Event("no_files", "src", NoName, NoName) EXCEPT !.run = run + 1])
              ELSE /\ pc' = "split"
                   /\ k' = 1
                   /\ log' = Append(log, [Event("start", "src", NoName, NoName) EXCEPT !.run = run + 1])
  /\ sp' = "open"
  /\ UNCHANGED <<fs, fs0, cmd, sweepVars, envVars>>

\* the split loop moves on; after the last file the sweep of _left_splits
LegacyNextFile ==
  /\ k' = k + 1
  /\ sp' = "open"
  /\ IF k + 1 <= Len(splitList)
       THEN pc' = "split" /\ phase' = phase
       ELSE pc' = "enum" /\ phase' = "left"
  /\ rel' = <<>> /\ ref' = NoName /\ i' = 0

\* "-DUP" in filename: the file is skipped with a log line
LegacySkipMarked ==
  /\ pc = "split" /\ sp = "open"
  /\ IsDup(CurrentFile)
  /\ Logged("skipped_dup", "src", CurrentFile, NoName)
  /\ LegacyNextFile
  /\ UNCHANGED <<fs, fs0, cmd, run, splitList, envVars>>

LegacySplitOpenFails ==
  /\ pc = "split" /\ sp = "open"
  /\ ~IsDup(CurrentFile)
  /\ ~Opens(fs.src, CurrentFile)
  /\ Logged("open_failed", "src", CurrentFile, NoName)
  /\ LegacyNextFile
  /\ UNCHANGED <<fs, fs0, cmd, run, splitList, envVars>>

LegacySplitSkip ==
  /\ pc = "split" /\ sp = "open"
  /\ ~IsDup(CurrentFile)
  /\ Opens(fs.src, CurrentFile)
  /\ fs.src[CurrentFile].w <= split_width
  /\ Logged("skipped", "src", CurrentFile, NoName)
  /\ LegacyNextFile
  /\ UNCHANGED <<fs, fs0, cmd, run, splitList, envVars>>

LegacySplitOpen ==
  /\ pc = "split" /\ sp = "open"
  /\ ~IsDup(CurrentFile)
  /\ Opens(fs.src, CurrentFile)
  /\ fs.src[CurrentFile].w > split_width
  /\ sp' = "left"
  /\ UNCHANGED <<fs, fs0, cmd, pc, run, splitList, k, sweepVars, envVars, log>>

LegacySplitSaveLeft ==
  /\ pc = "split" /\ sp = "left"
  /\ fs' = [fs EXCEPT !.left = WriteFile(@, LeftNameOf(CurrentFile),
                                          CropLeft(fs.src[CurrentFile], split_width))]
  /\ sp' = "right"
  /\ Logged("left_saved", "left", CurrentFile, LeftNameOf(CurrentFile))
  /\ UNCHANGED <<fs0, cmd, pc, run, splitList, k, sweepVars, envVars>>

\* LegacySplitSaveRight followed by the removal of the source file
LegacySplitSaveRight_RemovesSource ==
  /\ pc = "split" /\ sp = "right"
  /\ fs' = [fs EXCEPT !.right = WriteFile(@, RightNameOf(CurrentFile),
                                           CropRight(fs.src[CurrentFile], split_width)),
                      !.src = RemoveFile(@, CurrentFile)]
  /\ Logged("right_saved", "right", CurrentFile, RightNameOf(CurrentFile))
  /\ LegacyNextFile
  /\ UNCHANGED <<fs0, cmd, run, splitList, envVars>>

\* the right half is saved and the function returns: the source file stays
LegacySplitSaveRight ==
  /\ pc = "split" /\ sp = "right"
  /\ fs' = [fs EXCEPT !.right = WriteFile(@, RightNameOf(CurrentFile),
                                           CropRight(fs.src[CurrentFile], split_width))]
  /\ Logged("right_saved", "right", CurrentFile, RightNameOf(CurrentFile))
  /\ LegacyNextFile
  /\ UNCHANGED <<fs0, cmd, run, splitList, envVars>>

\* the legacy run_duplicate_detection returns: _right_splits after
\* _left_splits, then the end
LegacySweepReturns ==
  IF phase = "left"
    THEN pc' = "enum" /\ phase' = "right"
    ELSE pc' = "done" /\ phase' = phase

LegacyLoopOrReturn(cursor, files) ==
  IF cursor < Len(files) THEN pc' = "loop" /\ phase' = phase ELSE LegacySweepReturns

\* both sweeps are called with start_filename_for_dup_check=""
LegacySweepEnumerate ==
  /\ pc = "enum"
  /\ LET files == LegacyDupFilter(all_jpg_files(fs[phase]), <<>>)
     IN  /\ rel' = files
         /\ IF Len(files) < 2
              THEN /\ ref' = NoName /\ i' = 0
                   /\ LegacySweepReturns
                   /\ Logged("too_few", phase, NoName, NoName)
              ELSE /\ ref' = files[1] /\ i' = 1
                   /\ pc' = "loop" /\ phase' = phase
                   /\ Logged("sweep", phase, files[1], NoName)
  /\ UNCHANGED <<fs, fs0, cmd, run, splitVars, envVars>>

legacy_is_materially_different ==
  legacy_compare_images_visually(fs[phase][ref], fs[phase][next_file_name],
                                 inner_rect_percent, cmd.mdt)

LegacySweepRename ==
  /\ pc = "loop"
  /\ ~IsDup(ref) /\ BothExist
  /\ ~legacy_is_materially_different
  /\ LET new_next_file_name == DupNameOf(next_file_name)
     IN  /\ fs' = [fs EXCEPT ![phase] = RenameFile(@, next_file_name, new_next_file_name)]
         /\ rel' = [rel EXCEPT ![i + 1] = new_next_file_name]
         /\ Logged("renamed", phase, next_file_name, new_next_file_name)
  /\ i' = i + 1
  /\ LegacyLoopOrReturn(i + 1, rel)
  /\ UNCHANGED <<fs0, cmd, run, splitVars, ref, envVars>>

LegacySweepDifferent ==
  /\ pc = "loop"
  /\ ~IsDup(ref) /\ BothExist
  /\ legacy_is_materially_different
  /\ ref' = next_file_name
  /\ i' = i + 1
  /\ LegacyLoopOrReturn(i + 1, rel)
  /\ Logged("different", phase, ref, next_file_name)
  /\ UNCHANGED <<fs, fs0, cmd, run, splitVars, rel, envVars>>

NextLegacy ==
  \/ LegacyStart
  \/ LegacySkipMarked
  \/ LegacySplitOpenFails
  \/ LegacySplitSkip
  \/ LegacySplitOpen
  \/ LegacySplitSaveLeft
  \/ LegacySplitSaveRight
  \/ LegacySweepEnumerate
  \/ LegacySweepRename
  \/ LegacySweepDifferent

SpecLegacy == InitLegacy /\ [][NextLegacy]_vars

\* the first legacy run has ended, on a source folder that held only
\* unmarked .jpg files
LegacyDoneOnUnmarkedJpg ==
  /\ run = 1 /\ pc = "done"
  /\ \A f \in DOMAIN fs0.src : EndsWith(f, ExtJpg) /\ ~Marked(f)

\* the source files the orchestrator splits and removes
SplitByOrchestrator ==
  {f \in DOMAIN fs0.src : StrGeq(f, cmd.start) /\ Opens(fs0.src, f) /\ fs0.src[f].w > split_width}

(***************************************************************************)
(* C21: on a folder holding only unmarked .jpg files the legacy pipeline   *)
(* leaves the same set of filenames in the source folder, _left_splits and *)
(* _right_splits as the orchestrator does.                                 *)
(***************************************************************************)
C21_LegacyLeavesSameFilenames ==
  LegacyDoneOnUnmarkedJpg => FileNames(fs) = FileNames(OrchestratorRun(fs0, cmd.start))

\* C21 as the code has it: the two split folders end the same, files and
\* contents; the legacy pipeline removes no source file, the orchestrator
\* removes every file it has split
C21_LegacyLeavesSameHalves ==
  LegacyDoneOnUnmarkedJpg =>
    LET o == OrchestratorRun(fs0, cmd.start)
    IN  /\ fs.left = o.left
        /\ fs.right = o.right
        /\ fs.src = fs0.src
        /\ DOMAIN o.src = DOMAIN fs0.src \ SplitByOrchestrator

\* three files were split, a left half was marked, and the sources are there
C21_Witness ==
  /\ LegacyDoneOnUnmarkedJpg
  /\ Cardinality(SplitByOrchestrator) = 3
  /\ DOMAIN fs.src = DOMAIN fs0.src
  /\ \E n \in Events({"renamed"}) : log[n].dir = "left"
  /\ \E n \in Events({"different"}) : log[n].dir = "right"

Promotable == {n \in (i + 1)..Len(rel) : ~Marked(rel[n]) /\ rel[n] \in DOMAIN fs[phase]}

C23_PromotionOfNextExistingFile ==
  [][(pc = "loop" /\ deletes' = deletes /\ ref \notin DOMAIN fs[phase])
       => /\ fs' = fs /\ rel' = rel
          /\ Promotable # {} =>
               \E n \in Promotable :
                  /\ \A m \in Promotable : n <= m
                  /\ ref' = rel[n]
                  /\ i' = n
                  /\ IF n < Len(rel) THEN pc' = "loop" ELSE pc' \in {"enum", "done"}
          /\ Promotable = {} => (pc' \in {"enum", "done"} /\ ref' = ref /\ i' = i)]_vars

\* the reference a.jpg and the cursor file b.jpg were deleted together;
\* c.jpg was promoted over b.jpg and nothing was renamed
C23_Witness ==
  /\ cmd.prog = "detector" /\ run = 1 /\ pc = "done"
  /\ FirstList = <<FileA, FileB, FileC>>
  /\ \E n \in Events({"promoted"}) : log[n].a = FileC /\ ref = FileC
  /\ DOMAIN fs.src = {FileC}
  /\ fs.src[FileC] = fs0.src[FileC]

(***************************************************************************)
(* C24: after a failure-free sweep, every file of the filtered list that   *)
(* was renamed to -DUP was judged a duplicate of the nearest preceding     *)
(* file that stayed unmarked, every two consecutive unmarked files were    *)
(* judged materially different, and a file is renamed if and only if it    *)
(* was judged a duplicate of the reference current at its turn.            *)
(***************************************************************************)
\* the first sweep of the detector has ended with no failure
FailureFreeSweepDone ==
  /\ cmd.prog = "detector" /\ run = 1 /\ pc = "done"
  /\ NoFailure
  /\ Len(FirstList) >= 2

StayedUnmarked(f) == f \in DOMAIN fs.src

\* the position of the nearest file before position n that stayed unmarked
NearestUnmarkedBefore(n) ==
  CHOOSE m \in 1..(n - 1) :
    /\ StayedUnmarked(FirstList[m])
    /\ \A q \in (m + 1)..(n - 1) : ~StayedUnmarked(FirstList[q])

C24_SweepPostcondition ==
  /\ [](FailureFreeSweepDone =>
          /\ StayedUnmarked(FirstList[1])
          /\ \A n \in 2..Len(FirstList) :
               LET f == FirstList[n]
                   p == FirstList[NearestUnmarkedBefore(n)]
               IN  /\ ~StayedUnmarked(f) <=> ~Judged(fs0.src, p, f)
                   /\ ~StayedUnmarked(f) =>
                        /\ DupNameOf(f) \in DOMAIN fs.src
                        /\ fs.src[DupNameOf(f)] = fs0.src[f]
          /\ \A n \in Events({"different"}) : Judged(fs0.src, log[n].a, log[n].b))
  /\ [][(pc = "loop" /\ ~ReferenceLost /\ BothExist /\ fs' # fs /\ deletes' = deletes)
          => (~is_materially_different /\ ref' = ref
                /\ next_file_name \notin DOMAIN fs'[phase]
                /\ DupNameOf(next_file_name) \in DOMAIN fs'[phase])]_vars

\* of three files the second and the third were both marked duplicates of
\* the first
C24_Witness ==
  /\ FailureFreeSweepDone
  /\ Len(FirstList) = 3
  /\ StayedUnmarked(FirstList[1])
  /\ ~StayedUnmarked(FirstList[2]) /\ ~StayedUnmarked(FirstList[3])
  /\ fs0.src[FirstList[2]] # fs0.src[FirstList[1]]

(***************************************************************************)
(* C25: if a sweep is killed after any number of completed loop iterations *)
(* and a fresh sweep with the same starting filename, fraction and         *)
(* threshold is run on the folder as left, the final set of filenames      *)
(* equals that of one uninterrupted sweep on the original folder; the      *)
(* fresh sweep comes back to the reference the killed sweep had.           *)
(***************************************************************************)
\* the first sweep was killed and the fresh sweep has ended
SweepResumedAndDone ==
  /\ cmd.prog = "detector"
  /\ EventsOfRun({"killed"}, 1) # {}
  /\ run = 2 /\ pc = "done"

\* the reference the sweep has when it ends
LastReferenceOfRun(r) ==
  LET moves == EventsOfRun({"sweep", "different"}, r)
      last == CHOOSE n \in moves : \A m \in moves : m <= n
  IN  IF log[last].op = "sweep" THEN log[last].a ELSE log[last].b

C25_FreshSweepEqualsUninterrupted ==
  /\ SweepResumedAndDone => fs.src = SweepFolder(fs0.src, cmd.start)
  /\ (SweepResumedAndDone /\ EventsOfRun({"sweep"}, 1) # {} /\ EventsOfRun({"sweep"}, 2) # {}) =>
        \E n \in EventsOfRun({"sweep", "different"}, 2) :
           LastReferenceOfRun(1) = (IF log[n].op = "sweep" THEN log[n].a ELSE log[n].b)
  /\ (cmd.prog = "detector" /\ run = 1 /\ pc = "done" /\ kills = 0)
        => fs.src = SweepFolder(fs0.src, cmd.start)

\* killed after one file was marked; the fresh sweep marked another file
C25_Witness ==
  /\ SweepResumedAndDone
  /\ EventsOfRun({"renamed"}, 1) # {}
  /\ EventsOfRun({"renamed"}, 2) # {}
  /\ fs.src = SweepFolder(fs0.src, cmd.start)

(***************************************************************************)
(* The splitter and the orchestrator on source folders whose names share a *)
(* base: a.jpg and a.png, a.jpg and a-b.jpg; no I/O failure and no other   *)
(* process touching the folders.                                           *)
(***************************************************************************)
NamePool ==
  { <<"a", ".", "j", "p", "g">>, <<"a", ".", "p", "n", "g">>,
    <<"a", "-", "b", ".", "j", "p", "g">>, <<"b", ".", "j", "p", "g">> }

InitNames ==
  /\ \E names \in SUBSET NamePool :
       /\ Cardinality(names) <= MaxFiles
       /\ \E d \in [names -> ImagePool] :
            fs = [src |-> d, left |-> EmptyDir, right |-> EmptyDir]
  /\ fs0 = fs
  /\ \E p \in {"splitter", "orchestrator"} : cmd = [prog |-> p, start |-> <<>>]
  /\ pc = "idle"
  /\ run = 0
  /\ splitList = <<>> /\ k = 0 /\ sp = "open"
  /\ phase = "src" /\ rel = <<>> /\ ref = NoName /\ i = 0
  /\ faults = 0 /\ deletes = 0 /\ kills = 0
  /\ log = <<>>

NextNames ==
  \/ StartSplitting
  \/ SplitOpenFails
  \/ SplitSkip
  \/ SplitOpen
  \/ SplitSaveLeft
  \/ SplitSaveRight
  \/ SplitRemove
  \/ SweepEnumerate
  \/ SweepRename
  \/ SweepDifferent

SpecNames == InitNames /\ [][NextNames]_vars

\* the split phase of the first run is over
SplitPhaseOver == run = 1 /\ pc \in {"enum", "loop", "done"}

\* the source files the first run has split: both halves saved, source removed
SuccessfullySplit == {log[n].a : n \in EventsOfRun({"removed"}, 1)}

(***************************************************************************)
(* C26: split outputs of distinct sources never collide: after k distinct  *)
(* source files of one folder were split, each output folder holds k       *)
(* distinct new half-images, also for sources that share a base name and   *)
(* differ in extension, such as a.jpg and a.png.                           *)
(***************************************************************************)
C26_HalvesNeverCollide ==
  SplitPhaseOver =>
    /\ Cardinality(DOMAIN fs.left) = Cardinality(SuccessfullySplit)
    /\ Cardinality(DOMAIN fs.right) = Cardinality(SuccessfullySplit)

(***************************************************************************)
(* C27: splitting preserves the order: for any two source filenames x < y  *)
(* accepted by the split filter, the left half of x is named before the    *)
(* left half of y, and likewise the right halves, so a sweep visits the    *)
(* halves in the order of their sources.                                   *)
(***************************************************************************)
C27_HalvesKeepSourceOrder ==
  pc # "idle" =>
    \A m \in 1..Len(splitList), n \in 1..Len(splitList) :
       StrLess(splitList[m], splitList[n]) =>
          /\ StrLess(LeftNameOf(splitList[m]), LeftNameOf(splitList[n]))
          /\ StrLess(RightNameOf(splitList[m]), RightNameOf(splitList[n]))

====
